---- MODULE Spec2Model ----
(***************************************************************************)
(* Model of the check_for_license bot: the watch loop of bot.rs            *)
(* (watch_subreddit / watch_subreddit_once / check_post / respond_to),     *)
(* the processed-list file, and extract_gh_info of util.rs.                *)
(*                                                                         *)
(* Strings the code inspects character by character (urls, domains) are    *)
(* sequences of one-character strings.  An Option<T> is a sequence of      *)
(* length 0 (None) or 1 (Some).                                            *)
(*                                                                         *)
(* Spec is the bot over stops and restarts; RefetchSpec is one process     *)
(* against a listing that never changes; ExtractSpec is extract_gh_info    *)
(* applied to any url.                                                     *)
(***************************************************************************)
EXTENDS Integers, Sequences, FiniteSets, TLC

----------------------------------------------------------------------------
(* Bounds of the model *)

\* longest page (data.children) the listing endpoint returns
MaxPage == 2
\* listing fetches over the whole behaviour (all runs together)
MaxIter == 2
\* stops/restarts of the process
MaxRestarts == 1
\* chars after the marker in the urls extract_gh_info is given on its own
MaxTail == 3

----------------------------------------------------------------------------
(* Option values and the literals of the code *)

\* bot.rs 13-15
RESPONSE_TEXT == "The linked GitHub repository does not contain a license.\n\nPlease read over this article for more information: https://help.github.com/en/github/creating-cloning-and-archiving-repositories/licensing-a-repository"

None == << >>
Some(x) == << x >>

GITHUB_COM == << "g", "i", "t", "h", "u", "b", ".", "c", "o", "m" >>
GITHUB_COM_SLASH == GITHUB_COM \o << "/" >>
SELF_DOT == << "s", "e", "l", "f", "." >>
HTTPS == << "h", ":", "/", "/" >>

----------------------------------------------------------------------------
(* String helpers (Rust str methods used by the code) *)

\* str::starts_with
StartsWith(s, prefix) ==
    /\ Len(s) >= Len(prefix)
    /\ SubSeq(s, 1, Len(prefix)) = prefix

\* positions (1-based, in chars) at which pat occurs in s
Occurrences(s, pat) ==
    { i \in 1..(Len(s) - Len(pat) + 1) : SubSeq(s, i, i + Len(pat) - 1) = pat }

\* str::contains
StrContains(s, pat) == Occurrences(s, pat) # {}

\* bytes of the UTF-8 encoding of one char
\* (chars outside ASCII are written as tokens such as "U+00E9")
Utf8Len(c) == IF c \in { "U+00E9" } THEN 2 ELSE 1

RECURSIVE ByteLen(_)
ByteLen(s) == IF s = << >> THEN 0 ELSE Utf8Len(Head(s)) + ByteLen(Tail(s))

Min(S) == CHOOSE x \in S : \A y \in S : x <= y

\* str::find: Option of the BYTE offset of the first occurrence
StrFind(s, pat) ==
    IF Occurrences(s, pat) = {} THEN None
    ELSE Some(ByteLen(SubSeq(s, 1, Min(Occurrences(s, pat)) - 1)))

\* chars().skip(n).collect()
SkipChars(s, n) == IF n >= Len(s) THEN << >> ELSE SubSeq(s, n + 1, Len(s))

\* str::split(sep): the sequence of pieces (never empty: "" splits to [""])
RECURSIVE Split(_, _)
Split(s, sep) ==
    IF \A i \in 1..Len(s) : s[i] # sep THEN << s >>
    ELSE LET k == Min({ i \in 1..Len(s) : s[i] = sep })
         IN  << SubSeq(s, 1, k - 1) >> \o Split(SubSeq(s, k + 1, Len(s)), sep)

\* util.rs extract_gh_info: None, or Some(<<org, repo>>)
extract_gh_info(url) ==
    LET found == StrFind(url, GITHUB_COM_SLASH) IN
    IF found = None THEN None
    ELSE LET index == found[1] + 11
             rest  == SkipChars(url, index)
             parts == Split(rest, "/")
         IN  IF Len(parts) < 2 THEN None
             ELSE Some(<< parts[1], parts[2] >>)

----------------------------------------------------------------------------
(* The posts the listing endpoint can return: data.name -> domain, url *)

PostNames == { "t3_a", "t3_b", "t3_c", "t3_d" }

PostDomain(name) ==
    CASE name = "t3_a" -> GITHUB_COM
      [] name = "t3_b" -> SELF_DOT \o << "r" >>
      [] name = "t3_c" -> GITHUB_COM
      [] OTHER         -> << "x", ".", "i", "o" >>

PostUrl(name) ==
    CASE name = "t3_a" -> HTTPS \o GITHUB_COM_SLASH \o << "A", "/", "B" >>
      [] name = "t3_b" -> HTTPS \o << "r", "/", "1" >>
      [] name = "t3_c" -> HTTPS \o GITHUB_COM_SLASH \o << "O" >>
      [] OTHER         -> HTTPS \o << "x", ".", "i", "o", "/", "p" >>

Cursors == { "c1", "c2" }
OptCursor == { None } \cup { Some(c) : c \in Cursors }

RECURSIVE SeqsUpTo(_, _)
SeqsUpTo(S, n) ==
    IF n = 0 THEN { << >> }
    ELSE LET shorter == SeqsUpTo(S, n - 1)
         IN  shorter \cup { Append(s, x) : s \in { t \in shorter : Len(t) = n - 1 }, x \in S }

\* a child of the listing whose data has no "name" string
Nameless == "(no name)"

\* non-empty data.children, as the sequence of the posts' names; a listing
\* holds a post once
Pages ==
    { p \in SeqsUpTo(PostNames \cup { Nameless }, MaxPage) \ { << >> } :
        \A i, j \in 1..Len(p) : p[i] = p[j] => i = j }

\* outcome of one HTTP request: a success status, a non-success status, or
\* no response at all (send() fails)
HttpOutcomes == { "success", "status", "transport" }

\* Results: nothing yet, Ok, or an anyhow error, named by the step that
\* failed and how
Pending == << "pending", "" >>
Ok == << "ok", "" >>
HttpError(request, o) == << request, o >>
UrlError == << "url", "parse" >>
\* bot.rs 251-254: the io error watch_subreddit itself returns
WriteError == << "write", "io" >>
\* bot.rs 192, 199, 204, 207: unwrap() of a field the response lacks
Panic(field) == << "panic", field >>
Panics == { Panic(f) : f \in { "children", "name", "domain", "url" } }
\* bot.rs 184 (send), 186 (status), 191 (the body is not JSON)
ListingErrors == { HttpError("listing", o) : o \in { "transport", "status", "body" } }
\* bot.rs 92, 99, 101, 120, 149, 151
PostErrors ==
    { UrlError } \cup
    { HttpError(r, o) : r \in { "repo", "reply" }, o \in { "status", "transport" } } \cup
    { HttpError("license", "transport") }
Errors == ListingErrors \cup PostErrors

----------------------------------------------------------------------------
(* The processed-list file processed-{subreddit}.json *)

FileMissing == [ kind |-> "missing", items |-> << >> ]
\* content that is not a JSON array of strings (e.g. a torn write)
FileMalformed == [ kind |-> "malformed", items |-> << >> ]

\* serde_json::to_string(&self.processed)
to_string(list) == [ kind |-> "json", items |-> list ]

\* fs::read_to_string + serde_json::from_str::<Vec<String>>, with both Err
\* arms giving vec![]
LoadProcessed(f) == IF f.kind = "json" THEN f.items ELSE << >>

\* a membership test that looks at the newest entry only
ContainsLast(list, x) == Len(list) > 0 /\ list[Len(list)] = x

\* Vec::contains
Contains(list, x) == \E i \in 1..Len(list) : list[i] = x

\* a push that is lost (the post is not marked before it is checked)
PushNothing(list, x) == list

\* Vec::push
Push(list, x) == Append(list, x)

Range(s) == { s[i] : i \in 1..Len(s) }

----------------------------------------------------------------------------
(* State *)

VARIABLES
    pc,          \* where the process is: "start" (before watch_subreddit),
                 \* "fetch", "post", "exists", "license", "reply", "flush",
                 \* "exited" (watch_subreddit returned Err)
    processed,   \* Bot::processed
    after,       \* watch_subreddit's local `after`
    file,        \* content of processed-{subreddit}.json
    query,       \* watch_subreddit_once's parameter `after` (sent as ?after=)
    page,        \* postings of the current response (names of the posts)
    token,       \* data.after of the current response
    idx,         \* position in postings of the for loop (1-based)
    delays,      \* calls of Bot::delay in the current iteration
    outcome,     \* what the latest call of watch_subreddit_once in this run
                 \* returned: Pending (nothing yet), Ok, or the error (one
                 \* of Errors) that line 244 logs; WriteError once
                 \* watch_subreddit has returned, a Panic once the process
                 \* has panicked
    iterStart,   \* Bot::processed when the current iteration began
    loaded,      \* the list this run loaded from the file
    gh_calls,    \* per post name: GitHub API requests sent in this run
    attempts,    \* per post name: calls of respond_to in this run
    replies,     \* per post name: comments the reply endpoint accepted, ever
    verdict,     \* per post name: how check_post ended for it in this run
                 \* ("none": not called)
    comment,     \* form of the latest POST /api/comment of this run (Option)
    iter,        \* listing fetches so far
    restarts,    \* stops/restarts so far
    url,         \* the argument of a call of extract_gh_info on its own
    extracted,   \* and what the call returned
    feed         \* the page a listing endpoint that never changes returns

vars == << pc, processed, after, file, query, page, token, idx, delays,
           outcome, iterStart, loaded, gh_calls, attempts, replies, verdict,
           comment, iter, restarts, url, extracted, feed >>

\* the in-memory state of the current iteration
iterVars == << query, page, token, idx, delays, outcome, iterStart >>
\* what the outside world has seen
worldVars == << gh_calls, attempts, replies, verdict, comment >>
\* what only the specifications of extract_gh_info and of the unchanging
\* listing use
sideVars == << url, extracted, feed >>

Zero == [ n \in PostNames |-> 0 ]
NoVerdict == [ n \in PostNames |-> "none" ]

\* Bot::new, before watch_subreddit is called; no file has been written
Init ==
    /\ pc = "start"
    /\ processed = << >>
    /\ after = None
    /\ file = FileMissing
    /\ query = None
    /\ page = << >>
    /\ token = None
    /\ idx = 0
    /\ delays = 0
    /\ outcome = Pending
    /\ iterStart = << >>
    /\ loaded = << >>
    /\ gh_calls = Zero
    /\ attempts = Zero
    /\ replies = Zero
    /\ verdict = NoVerdict
    /\ comment = None
    /\ iter = 0
    /\ restarts = 0
    /\ url = << >>
    /\ extracted = None
    /\ feed = << >>

----------------------------------------------------------------------------
(* watch_subreddit: load, then loop { watch_subreddit_once; write } *)

\* bot.rs 226-239: load the processed list, start with no cursor
Load ==
    /\ pc = "start"
    /\ processed' = LoadProcessed(file)
    /\ loaded' = LoadProcessed(file)
    /\ after' = None
    /\ pc' = "fetch"
    /\ UNCHANGED << file, iterVars, worldVars, iter, restarts, sideVars >>

\* bot.rs 241-250: the match on watch_subreddit_once's result; the next
\* statement is the write
OnceReturnsOk(a) ==
    /\ after' = a
    /\ outcome' = Ok
    /\ pc' = "flush"

\* an Err arm that hands the error on (return Err(e)) instead of logging it
OnceReturnsErrExits(e) ==
    /\ after' = after
    /\ outcome' = e
    /\ pc' = "exited"

\* an Err arm that takes the token of the response as the new cursor
OnceReturnsErrAdvances(e) ==
    /\ after' = token
    /\ outcome' = e
    /\ pc' = "flush"

OnceReturnsErr(e) ==
    /\ after' = after
    /\ outcome' = e
    /\ pc' = "flush"

\* bot.rs 160-166
Delay == delays' = delays + 1

\* bot.rs 174-184: the request of a new iteration
SendListing ==
    /\ pc = "fetch"
    /\ iter < MaxIter
    /\ iter' = iter + 1
    /\ query' = after
    /\ iterStart' = processed

\* a failed fetch that loses the cursor
FetchErrorResetsCursor ==
    /\ SendListing
    /\ \E e \in ListingErrors :
        /\ after' = None
        /\ outcome' = e
        /\ pc' = "flush"
        /\ page' = << >>
        /\ token' = None
        /\ idx' = 0
        /\ delays' = 0
    /\ UNCHANGED << processed, file, loaded, worldVars, restarts, sideVars >>

\* bot.rs 179-191: send() fails, the status is not a success, or the body
\* is not JSON
FetchError ==
    /\ SendListing
    /\ \E e \in ListingErrors :
        /\ OnceReturnsErr(e)
        /\ page' = << >>
        /\ token' = None
        /\ idx' = 0
        /\ delays' = 0
    /\ UNCHANGED << processed, file, loaded, worldVars, restarts, sideVars >>

\* an empty page that starts over from the first page (return Ok(None))
FetchEmptyResetsCursor ==
    /\ SendListing
    /\ page' = << >>
    /\ token' = None
    /\ idx' = 0
    /\ Delay
    /\ OnceReturnsOk(None)
    /\ UNCHANGED << processed, file, loaded, worldVars, restarts, sideVars >>

\* bot.rs 192-196: an empty page
FetchEmpty ==
    /\ SendListing
    /\ page' = << >>
    /\ token' = None
    /\ idx' = 0
    /\ Delay
    /\ OnceReturnsOk(query')
    /\ UNCHANGED << processed, file, loaded, worldVars, restarts, sideVars >>

\* bot.rs 192-197: a page with posts; the for loop starts
FetchPage ==
    /\ SendListing
    /\ \E p \in Pages, t \in OptCursor :
        /\ page' = p
        /\ token' = t
        /\ idx' = 1
        /\ delays' = 0
        /\ outcome' = Pending
        /\ pc' = "post"
    /\ UNCHANGED << processed, after, file, loaded, worldVars, restarts, sideVars >>

\* the for loop is at a post (whose name it could read, line 199)
AtPost == pc = "post" /\ idx \in 1..Len(page)
InLoop == AtPost /\ page[idx] \in PostNames
fullname == page[idx]

\* the for loop goes on with the next post
NextPost ==
    /\ idx' = idx + 1
    /\ pc' = "post"

\* check_post returns for the current post (bot.rs 92, 101, 128, 131, or
\* the `?` of 99 and 120)
CheckPostEnds(how) == verdict' = [ verdict EXCEPT ![fullname] = how ]

\* a loop that pushes before it looks
PostAlreadyProcessedPushes ==
    /\ InLoop
    /\ Contains(processed, fullname)
    /\ processed' = Push(processed, fullname)
    /\ NextPost
    /\ UNCHANGED << after, file, query, page, token, delays,
                    outcome, iterStart, loaded, worldVars, iter, restarts, sideVars >>

\* bot.rs 200-202
PostAlreadyProcessed ==
    /\ InLoop
    /\ Contains(processed, fullname)
    /\ NextPost
    /\ UNCHANGED << processed, after, file, query, page, token, delays,
                    outcome, iterStart, loaded, worldVars, iter, restarts, sideVars >>

\* bot.rs 203-206
PostSelf ==
    /\ InLoop
    /\ ~Contains(processed, fullname)
    /\ processed' = Push(processed, fullname)
    /\ StartsWith(PostDomain(fullname), SELF_DOT)
    /\ NextPost
    /\ UNCHANGED << after, file, query, page, token, delays,
                    outcome, iterStart, loaded, worldVars, iter, restarts, sideVars >>

\* bot.rs 203-209: a link that does not mention github.com
PostNotGithub ==
    /\ InLoop
    /\ ~Contains(processed, fullname)
    /\ processed' = Push(processed, fullname)
    /\ ~StartsWith(PostDomain(fullname), SELF_DOT)
    /\ ~StrContains(PostUrl(fullname), GITHUB_COM)
    /\ NextPost
    /\ UNCHANGED << after, file, query, page, token, delays,
                    outcome, iterStart, loaded, worldVars, iter, restarts, sideVars >>

\* a loop that marks a post only after its check (here: not at all when
\* the check fails)
PostCheckUnparsableUnmarked ==
    /\ InLoop
    /\ ~Contains(processed, fullname)
    /\ ~StartsWith(PostDomain(fullname), SELF_DOT)
    /\ StrContains(PostUrl(fullname), GITHUB_COM)
    /\ extract_gh_info(PostUrl(fullname)) = None
    /\ OnceReturnsErr(UrlError)
    /\ CheckPostEnds("unparsable")
    /\ UNCHANGED << processed, file, query, page, token, idx, delays, iterStart,
                    loaded, gh_calls, attempts, replies, comment, iter, restarts,
                    sideVars >>

\* bot.rs 203-209 and 90-93: check_post cannot parse the url; its Err
\* leaves watch_subreddit_once through the `?` of line 209
PostCheckUnparsable ==
    /\ InLoop
    /\ ~Contains(processed, fullname)
    /\ processed' = Push(processed, fullname)
    /\ ~StartsWith(PostDomain(fullname), SELF_DOT)
    /\ StrContains(PostUrl(fullname), GITHUB_COM)
    /\ extract_gh_info(PostUrl(fullname)) = None
    /\ OnceReturnsErr(UrlError)
    /\ CheckPostEnds("unparsable")
    /\ UNCHANGED << file, query, page, token, idx, delays, iterStart, loaded,
                    gh_calls, attempts, replies, comment, iter, restarts,
                    sideVars >>

\* bot.rs 203-209 and 90-99: check_post sends the repository request
PostCheck ==
    /\ InLoop
    /\ ~Contains(processed, fullname)
    /\ processed' = Push(processed, fullname)
    /\ ~StartsWith(PostDomain(fullname), SELF_DOT)
    /\ StrContains(PostUrl(fullname), GITHUB_COM)
    /\ extract_gh_info(PostUrl(fullname)) # None
    /\ pc' = "exists"
    /\ UNCHANGED << after, file, query, page, token, idx, delays,
                    outcome, iterStart, loaded, worldVars, iter, restarts, sideVars >>

\* one more GitHub request for the current post
GithubRequest == gh_calls' = [ gh_calls EXCEPT ![fullname] = @ + 1 ]

\* bot.rs 99-109: GET /repos/{org}/{repo}
CheckExists ==
    /\ pc = "exists"
    /\ GithubRequest
    /\ \E o \in HttpOutcomes :
        CASE o = "success"   -> /\ pc' = "license"
                                /\ UNCHANGED << after, outcome, verdict >>
          [] o = "status"    -> /\ OnceReturnsErr(HttpError("repo", o))
                                /\ CheckPostEnds("invalid")
          [] o = "transport" -> /\ OnceReturnsErr(HttpError("repo", o))
                                /\ CheckPostEnds("failed")
    /\ UNCHANGED << processed, file, query, page, token, idx, delays, iterStart,
                    loaded, attempts, replies, comment, iter, restarts, sideVars >>

\* a license check that answers Ok(true) whatever the status is
CheckLicenseAlwaysTrue ==
    /\ pc = "license"
    /\ GithubRequest
    /\ \E o \in HttpOutcomes :
        CASE o = "success"   -> /\ CheckPostEnds("licensed")
                                /\ pc' = "reply"
                                /\ UNCHANGED << after, outcome, idx >>
          [] o = "status"    -> /\ CheckPostEnds("unlicensed")
                                /\ pc' = "reply"
                                /\ UNCHANGED << after, outcome, idx >>
          [] o = "transport" -> /\ CheckPostEnds("failed")
                                /\ OnceReturnsErr(HttpError("license", o))
                                /\ UNCHANGED idx
    /\ UNCHANGED << processed, file, query, page, token, delays, iterStart,
                    loaded, attempts, replies, comment, iter, restarts, sideVars >>

\* bot.rs 113-131 and 209: GET /repos/{org}/{repo}/license; Ok(true) goes
\* on to respond_to, Ok(false) to the next post
CheckLicense ==
    /\ pc = "license"
    /\ GithubRequest
    /\ \E o \in HttpOutcomes :
        CASE o = "success"   -> /\ CheckPostEnds("licensed")
                                /\ NextPost
                                /\ UNCHANGED << after, outcome >>
          [] o = "status"    -> /\ CheckPostEnds("unlicensed")
                                /\ pc' = "reply"
                                /\ UNCHANGED << after, outcome, idx >>
          [] o = "transport" -> /\ CheckPostEnds("failed")
                                /\ OnceReturnsErr(HttpError("license", o))
                                /\ UNCHANGED idx
    /\ UNCHANGED << processed, file, query, page, token, delays, iterStart,
                    loaded, attempts, replies, comment, iter, restarts, sideVars >>

\* a form that names the first post of the page instead of the checked one
ReplyFormFirst(name) ==
    [ api_type |-> "json", thing_id |-> page[1], text |-> RESPONSE_TEXT ]

\* bot.rs 137-143: the form of the comment request
ReplyForm(name) ==
    [ api_type |-> "json", thing_id |-> name, text |-> RESPONSE_TEXT ]

\* bot.rs 135-158 and 210: POST /api/comment with thing_id = fullname
RespondTo ==
    /\ pc = "reply"
    /\ LET data == ReplyForm(fullname) IN
        /\ comment' = Some(data)
        /\ attempts' = [ attempts EXCEPT ![data.thing_id] = @ + 1 ]
        /\ \E o \in HttpOutcomes :
            IF o = "success"
            THEN /\ replies' = [ replies EXCEPT ![data.thing_id] = @ + 1 ]
                 /\ NextPost
                 /\ UNCHANGED << after, outcome >>
            ELSE /\ OnceReturnsErr(HttpError("reply", o))
                 /\ UNCHANGED << replies, idx >>
    /\ UNCHANGED << processed, file, query, page, token, delays, iterStart,
                    loaded, gh_calls, verdict, iter, restarts, sideVars >>

\* bot.rs 213-219: after the last post
PageEnd ==
    /\ pc = "post"
    /\ idx = Len(page) + 1
    /\ IF token # None
       THEN OnceReturnsOk(token) /\ UNCHANGED delays
       ELSE Delay /\ OnceReturnsOk(query)
    /\ UNCHANGED << processed, file, query, page, token, idx,
                    iterStart, loaded, worldVars, iter, restarts, sideVars >>

\* the locals of watch_subreddit_once are gone
LocalsDropped ==
    /\ query' = None
    /\ page' = << >>
    /\ token' = None
    /\ idx' = 0
    /\ delays' = 0

\* the locals of watch_subreddit_once are gone once the iteration is over
IterationOver ==
    /\ LocalsDropped
    /\ iterStart' = << >>

\* unwrap() on None: the panic unwinds out of main (main.rs 10-21) and the
\* process ends, without the write of line 251; the response is dropped
Panicked(field) ==
    /\ pc' = "exited"
    /\ outcome' = Panic(field)
    /\ page' = << >>
    /\ token' = None
    /\ idx' = 0
    /\ delays' = 0

\* bot.rs 191-192: a success response whose JSON has no data.children array
FetchPanics ==
    /\ SendListing
    /\ Panicked("children")
    /\ UNCHANGED << processed, after, file, loaded, worldVars, restarts, sideVars >>

\* bot.rs 198-199: a post without a name
PostNamePanics ==
    /\ AtPost
    /\ page[idx] = Nameless
    /\ Panicked("name")
    /\ UNCHANGED << processed, after, file, query, iterStart, loaded,
                    worldVars, iter, restarts, sideVars >>

\* bot.rs 203-207: a post that is not in the list yet and whose data has no
\* domain, or (not a self post) no url
PostFieldPanics ==
    /\ InLoop
    /\ ~Contains(processed, fullname)
    /\ processed' = Push(processed, fullname)
    /\ \/ Panicked("domain")
       \/ /\ ~StartsWith(PostDomain(fullname), SELF_DOT)
          /\ Panicked("url")
    /\ UNCHANGED << after, file, query, iterStart, loaded,
                    worldVars, iter, restarts, sideVars >>

\* a write that drains the list it has written
FlushDrains ==
    /\ pc = "flush"
    /\ file' = to_string(processed)
    /\ processed' = << >>
    /\ pc' = "fetch"
    /\ IterationOver
    /\ UNCHANGED << after, outcome, loaded, worldVars, iter, restarts, sideVars >>

\* a write that is skipped when the iteration ended in an error
FlushOnlyOnOk ==
    /\ pc = "flush"
    /\ file' = IF outcome = Ok THEN to_string(processed) ELSE file
    /\ pc' = "fetch"
    /\ IterationOver
    /\ UNCHANGED << processed, after, outcome, loaded, worldVars, iter, restarts, sideVars >>

\* bot.rs 251-254: the file is rewritten, the loop goes round
Flush ==
    /\ pc = "flush"
    /\ file' = to_string(processed)
    /\ pc' = "fetch"
    /\ IterationOver
    /\ UNCHANGED << processed, after, outcome, loaded, worldVars, iter, restarts, sideVars >>

\* a failed write that is logged and followed by the next iteration
FlushFailsContinues ==
    /\ pc = "flush"
    /\ \E f \in { file, FileMalformed } : file' = f
    /\ pc' = "fetch"
    /\ outcome' = WriteError
    /\ LocalsDropped
    /\ UNCHANGED << processed, after, iterStart, loaded, worldVars, iter,
                    restarts, sideVars >>

\* bot.rs 251-254: fs::write fails (the file cannot be created, or the
\* write stops part-way); `?` returns the error from watch_subreddit
FlushFails ==
    /\ pc = "flush"
    /\ \E f \in { file, FileMalformed } : file' = f
    /\ pc' = "exited"
    /\ outcome' = WriteError
    /\ LocalsDropped
    /\ UNCHANGED << processed, after, iterStart, loaded, worldVars, iter,
                    restarts, sideVars >>

\* The process is stopped (at any point) and started again: main.rs 18-21,
\* Bot::new (bot.rs 46-57).  Memory is lost, the file stays; a stop in the
\* middle of fs::write can leave a torn file.
Restart ==
    /\ pc # "start"
    /\ restarts < MaxRestarts
    /\ restarts' = restarts + 1
    /\ \E f \in { file } \cup (IF pc = "flush" THEN { FileMalformed } ELSE {}) :
        file' = f
    /\ pc' = "start"
    /\ processed' = << >>
    /\ after' = None
    /\ IterationOver
    /\ outcome' = Pending
    /\ loaded' = << >>
    /\ gh_calls' = Zero
    /\ attempts' = Zero
    /\ verdict' = NoVerdict
    /\ comment' = None
    /\ UNCHANGED << replies, iter, sideVars >>

Next ==
    \/ Load
    \/ FetchError
    \/ FetchEmpty
    \/ FetchPage
    \/ FetchPanics
    \/ PostNamePanics
    \/ PostFieldPanics
    \/ PostAlreadyProcessed
    \/ PostSelf
    \/ PostNotGithub
    \/ PostCheckUnparsable
    \/ PostCheck
    \/ CheckExists
    \/ CheckLicense
    \/ RespondTo
    \/ PageEnd
    \/ Flush
    \/ FlushFails
    \/ Restart

Spec == Init /\ [][Next]_vars

----------------------------------------------------------------------------
(* The watch loop of one process that keeps running, against a listing     *)
(* endpoint that answers every request with the same well-formed page      *)

Feeds == { p \in Pages : Range(p) \subseteq PostNames }

RefetchInit ==
    /\ pc = "start"
    /\ feed \in Feeds
    /\ processed = << >>
    /\ after = None
    /\ file = FileMissing
    /\ query = None
    /\ page = << >>
    /\ token = None
    /\ idx = 0
    /\ delays = 0
    /\ outcome = Pending
    /\ iterStart = << >>
    /\ loaded = << >>
    /\ gh_calls = Zero
    /\ attempts = Zero
    /\ replies = Zero
    /\ verdict = NoVerdict
    /\ comment = None
    /\ iter = 0
    /\ restarts = 0
    /\ url = << >>
    /\ extracted = None

\* bot.rs 174-197: the request of a new iteration is answered with the feed
\* (and any data.after)
FetchFeed ==
    /\ pc = "fetch"
    /\ query' = after
    /\ iterStart' = processed
    /\ page' = feed
    /\ \E t \in OptCursor : token' = t
    /\ idx' = 1
    /\ delays' = 0
    /\ outcome' = Pending
    /\ pc' = "post"
    /\ UNCHANGED << processed, after, file, loaded, worldVars, iter, restarts,
                    sideVars >>

RefetchNext ==
    \/ Load
    \/ FetchFeed
    \/ PostAlreadyProcessed
    \/ PostSelf
    \/ PostNotGithub
    \/ PostCheckUnparsable
    \/ PostCheck
    \/ CheckExists
    \/ CheckLicense
    \/ RespondTo
    \/ PageEnd
    \/ Flush

\* the loop of bot.rs 240-255 has no await that can stay pending for ever
\* once the endpoints answer: the process always takes its next step
RefetchSpec == RefetchInit /\ [][RefetchNext]_vars /\ WF_vars(RefetchNext)

----------------------------------------------------------------------------
(* extract_gh_info on its own: any caller, any url *)

\* what stands before the marker: nothing, a scheme, a char of two bytes
UrlPrefixes == { << >>, HTTPS, << "U+00E9" >> }
\* the marker, the host without the slash, or neither
UrlHosts == { GITHUB_COM_SLASH, GITHUB_COM, << >> }
UrlTails == SeqsUpTo({ "a", "b", "/" }, MaxTail)
Urls == { p \o h \o t : p \in UrlPrefixes, h \in UrlHosts, t \in UrlTails }

ExtractInit ==
    /\ pc = "extract"
    /\ url \in Urls
    /\ extracted = None
    /\ processed = << >>
    /\ after = None
    /\ file = FileMissing
    /\ query = None
    /\ page = << >>
    /\ token = None
    /\ idx = 0
    /\ delays = 0
    /\ outcome = Pending
    /\ iterStart = << >>
    /\ loaded = << >>
    /\ gh_calls = Zero
    /\ attempts = Zero
    /\ replies = Zero
    /\ verdict = NoVerdict
    /\ comment = None
    /\ iter = 0
    /\ restarts = 0
    /\ feed = << >>

\* util.rs 2-19: one call
ExtractApply ==
    /\ pc = "extract"
    /\ extracted' = extract_gh_info(url)
    /\ pc' = "extracted"
    /\ UNCHANGED << processed, after, file, iterVars, loaded, worldVars, iter,
                    restarts, url, feed >>

ExtractNext == ExtractApply

ExtractSpec == ExtractInit /\ [][ExtractNext]_vars

----------------------------------------------------------------------------
(* Claims *)

\* the error of the current iteration came from a post at position idx
PostFailed == pc = "flush" /\ outcome \in PostErrors

C2_AtMostOneReplyEver ==
    \A n \in PostNames : replies[n] <= 1

\* C3: when check_post or respond_to fails for the post at position idx,
\* every post after it in the page is marked processed in that iteration.
C3_LaterPostsStillProcessed ==
    PostFailed =>
        \A j \in (idx + 1)..Len(page) : page[j] \in Range(processed)

\* C4: an error of check_post or respond_to does not end watch_subreddit:
\* once it is returned the process is still in the loop, at the write of
\* that iteration (which can be taken) or past it at the listing fetch.
C4_PostErrorKeepsLoopAlive ==
    outcome \in PostErrors =>
        /\ pc \in { "flush", "fetch" }
        /\ pc = "flush" => ENABLED Flush

\* the loop is about to fetch again after an iteration a post failed in
C4_Witness ==
    /\ pc = "fetch"
    /\ outcome \in PostErrors
    /\ iter < MaxIter

\* C5: when the loop is back at the listing fetch, the file holds the
\* in-memory processed list, whether the iteration returned a cursor or an
\* error.
C5_FileIsProcessedAtFetch ==
    (pc = "fetch" /\ outcome # Pending) => file = to_string(processed)

\* back at the fetch after an iteration that failed and added to the list
C5_Witness ==
    /\ pc = "fetch"
    /\ outcome \in Errors
    /\ file = to_string(processed)
    /\ Len(processed) > Len(loaded)

\* C6: after a restart, a post whose identifier was in the file is neither
\* checked (no GitHub request) nor replied to, in any later page.
C6_LoadedNeverReprocessed ==
    \A n \in Range(loaded) : gh_calls[n] = 0 /\ attempts[n] = 0

\* after a restart, the loop has gone past a repository link from the file
C6_Witness ==
    /\ restarts > 0
    /\ pc = "post"
    /\ idx > 1
    /\ page[idx - 1] = "t3_a"
    /\ page[idx - 1] \in Range(loaded)

\* the iteration ended with the listing fetch failing
FetchFailed == pc = "flush" /\ outcome \in ListingErrors

\* C7: when the listing fetch fails, the iteration ends with a logged
\* error: no post is looked at, the processed list is as the iteration found
\* it, and the loop goes round with the cursor that was sent.
C7_FetchErrorKeepsState ==
    /\ [](FetchFailed =>
            /\ page = << >>
            /\ idx = 0
            /\ processed = iterStart
            /\ after = query)
    /\ [][(FetchFailed /\ pc' = "fetch") =>
            (after' = query /\ processed' = iterStart)]_vars

\* a fetch with a cursor got a non-success status
C7_Witness ==
    /\ FetchFailed
    /\ outcome = HttpError("listing", "status")
    /\ query # None
    /\ processed # << >>

\* the iteration ended with an empty page
EmptyPage == pc = "flush" /\ outcome = Ok /\ page = << >>

\* C8: an empty page gives exactly one delay in the iteration, and the loop
\* goes round with the cursor that was sent.
C8_EmptyPageDelaysOnce ==
    /\ [](EmptyPage => (delays = 1 /\ after = query))
    /\ [][(EmptyPage /\ pc' = "fetch") => after' = query]_vars

\* an empty page came back for a fetch with a cursor
C8_Witness == EmptyPage /\ query # None

\* C9: after a page with posts, a missing data.after gives one delay and
\* keeps the cursor that was sent; a data.after becomes the cursor.
C9_CursorAfterPage ==
    (pc = "flush" /\ page # << >>) =>
        IF token = None
        THEN delays = 1 /\ after = query
        ELSE after = token

\* C10: a post of the page whose identifier is in the processed list costs
\* no GitHub request and no reply, and leaves the list as it is: the loop
\* goes straight to the next post.
C10_ProcessedPostIsSkipped ==
    [][(InLoop /\ fullname \in Range(processed) /\ restarts' = restarts) =>
            /\ processed' = processed
            /\ worldVars' = worldVars
            /\ pc' = "post"
            /\ idx' = idx + 1]_vars

\* the loop has gone past a repository link that was in the list when the
\* iteration began
C10_Witness ==
    /\ pc = "post"
    /\ idx > 1
    /\ page[idx - 1] = "t3_a"
    /\ page[idx - 1] \in Range(iterStart)

\* C11: a link post that mentions github.com but gives no (owner, name)
\* pair is skipped without an error: no iteration ends with the error of the
\* url extraction.
C11_UnparsableLinkIsNotAnError ==
    outcome # UrlError

\* C12: a repository link post that exists on GitHub and has no license
\* (the license request is answered with a non-success status) gets exactly
\* one comment request in that iteration, with thing_id its fullname and the
\* fixed text, and once the write of that iteration is done the post's name
\* is in the file.
C12_UnlicensedRepoGetsOneReply ==
    /\ \A n \in PostNames :
        verdict[n] = "unlicensed" =>
            /\ attempts[n] = (IF pc = "reply" /\ fullname = n THEN 0 ELSE 1)
            /\ pc = "fetch" => Contains(LoadProcessed(file), n)
    /\ comment # None =>
            /\ comment[1].text = RESPONSE_TEXT
            /\ comment[1].api_type = "json"
            /\ comment[1].thing_id \in PostNames
            /\ verdict[comment[1].thing_id] = "unlicensed"

\* the iteration that replied to t3_a (https://github.com/A/B) has written
\* the file
C12_Witness ==
    /\ pc = "fetch"
    /\ verdict["t3_a"] = "unlicensed"
    /\ comment = Some(ReplyForm("t3_a"))
    /\ attempts["t3_a"] = 1
    /\ Contains(LoadProcessed(file), "t3_a")

\* the posts of the page the for loop has gone past
Taken ==
    IF pc \in { "post", "exists", "license", "reply", "flush" }
    THEN { page[j] : j \in 1..Min({ idx - 1, Len(page) }) }
    ELSE {}

\* C13: no comment request is sent for a post whose license request
\* succeeded, whose repository request got a non-success status, or whose
\* domain starts with "self."; such a post is in the processed list all the
\* same, and check_post (and with it the extractor) is never called for a
\* self post.
C13_NoReplyWhenNotApplicable ==
    \A n \in PostNames :
        /\ verdict[n] \in { "licensed", "invalid" } =>
            attempts[n] = 0 /\ Contains(processed, n)
        /\ StartsWith(PostDomain(n), SELF_DOT) =>
            /\ attempts[n] = 0
            /\ verdict[n] = "none"
            /\ gh_calls[n] = 0
            /\ n \in Taken => Contains(processed, n)

\* the loop is past a self post and a repository that has a license
C13_Witness ==
    /\ pc = "post"
    /\ page = << "t3_b", "t3_a" >>
    /\ idx = 3
    /\ verdict["t3_a"] = "licensed"
    /\ attempts["t3_a"] = 0
    /\ Contains(processed, "t3_b")

\* the url from the char after the first "github.com/" on
AfterMarker(u) ==
    SubSeq(u, Min(Occurrences(u, GITHUB_COM_SLASH)) + Len(GITHUB_COM_SLASH), Len(u))

\* the result the claim describes: the first two segments after the marker
\* when both are there and not empty, no match otherwise
TwoSegments(u) ==
    IF ~StrContains(u, GITHUB_COM_SLASH) THEN None
    ELSE LET parts == Split(AfterMarker(u), "/")
         IN  IF Len(parts) >= 2 /\ parts[1] # << >> /\ parts[2] # << >>
             THEN Some(<< parts[1], parts[2] >>)
             ELSE None

\* C14: extract_gh_info returns the first two path segments after
\* "github.com/" when the url has at least two non-empty ones, and None for
\* every other url (no marker, fewer than two segments, an empty first or
\* second segment).
C14_ExtractTwoSegments ==
    pc = "extracted" => extracted = TwoSegments(url)

\* some step of watch_subreddit (anything but a restart of the process) can
\* be taken
LoopCanStep ==
    ENABLED (\/ Load \/ FetchError \/ FetchEmpty \/ FetchPage \/ FetchPanics
             \/ PostNamePanics \/ PostFieldPanics \/ PostAlreadyProcessed
             \/ PostSelf \/ PostNotGithub \/ PostCheckUnparsable \/ PostCheck
             \/ CheckExists \/ CheckLicense \/ RespondTo \/ PageEnd
             \/ Flush \/ FlushFails)

\* C15: when the write of the processed list fails, watch_subreddit returns
\* the error: the loop is over, and no listing fetch, check, reply or write
\* follows in that process.
C15_WriteErrorIsFatal ==
    outcome = WriteError => pc = "exited" /\ ~LoopCanStep

\* the write failed after an iteration that had marked a post
C15_Witness ==
    /\ outcome = WriteError
    /\ pc = "exited"
    /\ processed # << >>
    /\ iter < MaxIter

\* C16: a success response of the listing that lacks data.children, or a
\* post's name, domain or url, is a loop-level error like any other: the
\* process is still in the loop, at the write of that iteration (which can
\* be taken) or past it at the next listing fetch.
C16_MissingFieldKeepsLoopAlive ==
    outcome \in Panics =>
        /\ pc \in { "flush", "fetch" }
        /\ pc = "flush" => ENABLED Flush

\* C17: as long as the process lives, every step of the watch loop (the
\* load, a post taken, an error, a delay, the write) leaves the processed
\* list with all the entries it had, in their places; only a new process
\* starts from an empty list.
C17_ProcessedOnlyGrows ==
    [][pc' # "start" =>
        /\ Len(processed') >= Len(processed)
        /\ SubSeq(processed', 1, Len(processed)) = processed]_vars

\* the write is done after an iteration that marked two posts and ended in
\* an error
C17_Witness ==
    /\ pc = "fetch"
    /\ Len(processed) = 2
    /\ outcome \in PostErrors
    /\ LoadProcessed(file) = processed

\* names in the in-memory list that the file does not hold
Unflushed == Range(processed) \ Range(LoadProcessed(file))

\* names the current iteration has added to the list (none once its write
\* is done)
AddedNow == IF pc = "fetch" THEN {} ELSE Range(processed) \ Range(iterStart)

\* C18: from the load on, whatever is in the in-memory processed list but
\* not in the file was added in the current iteration, so that a process
\* that ends there loses no name of an earlier iteration.
C18_OnlyCurrentIterationUnflushed ==
    pc # "start" => Unflushed \subseteq AddedNow

\* C19: a post whose check or reply fails does not block the loop: an
\* iteration that ends in such an error has made the processed list longer,
\* and when the listing keeps answering with the same page, from some point
\* on every post of that page is in the processed list.
C19_FailedPostDoesNotBlock ==
    /\ [](PostFailed => Len(processed) > Len(iterStart))
    /\ <>[](Range(feed) \subseteq Range(processed))

\* the page that failed at its first post has been fetched again and all its
\* posts are marked
C19_Witness ==
    /\ pc = "fetch"
    /\ feed = << "t3_c", "t3_a" >>
    /\ verdict["t3_c"] = "unparsable"
    /\ verdict["t3_a"] # "none"
    /\ Range(feed) \subseteq Range(processed)

\* C20: during an iteration the cursor is the one that was sent, and at its
\* end the cursor differs from it only when watch_subreddit_once returned
\* Ok after the last post of a non-empty page whose response carried a
\* token, which is then the new cursor; after a failed fetch, an empty page,
\* a post error or a page without token the cursor is the one sent.
C20_CursorFrame ==
    /\ pc \in { "post", "exists", "license", "reply" } => after = query
    /\ pc = "flush" /\ after # query =>
        /\ outcome = Ok
        /\ page # << >>
        /\ idx = Len(page) + 1
        /\ token # None
        /\ after = token

\* an iteration that was sent a cursor ends with another one
C20_Witness ==
    /\ pc = "flush"
    /\ query # None
    /\ after # query
    /\ outcome = Ok

====
